---- MODULE Spec2Model ----
(***************************************************************************)
(* Model of src/src/llvm-remove-addrspaces.cpp: the address-space removal  *)
(* pass.  Three parts:                                                      *)
(*   - the memoized type remapper AddrspaceRemoveTypeRemapper::remapType,  *)
(*     as a small-step machine with an explicit call stack (SpecT);        *)
(*   - RemoveNoopAddrSpaceCasts over one function body (SpecC);            *)
(*   - the module driver removeAddrspaces with the value materializer      *)
(*     (Spec).                                                             *)
(***************************************************************************)
EXTENDS Integers, Sequences, FiniteSets, TLC

VARIABLES
    policy,                   \* which AddrspaceRemapFunction the pass holds
    MappedTypes,              \* DenseMap<Type *, Type *> of the type remapper
    structs,                  \* the context's identified struct types, by identity
    NamedStructTypesUniqueID, \* the context's counter for colliding struct names
    stack,                    \* activation records of remapType
    result,                   \* value returned by the outermost remapType call
    calls,                    \* outermost remapType calls made so far (arguments)
    rets,                     \* ... and what they returned
    structs0,                 \* the struct table before the first call
    insts,                    \* the instructions of the function being cleaned
    order,                    \* ... and their layout order (erased ones dropped)
    NoopCasts,                \* SmallVector<AddrSpaceCastInst *> NoopCasts
    it,                       \* position of the instruction iterator
    Changed,                  \* the local `Changed`
    retval,                   \* what RemoveNoopAddrSpaceCasts returned
    cpc,                      \* where RemoveNoopAddrSpaceCasts is
    insts0,                   \* the instructions before the call
    order0,                   \* the layout before the call
    ents,                     \* the module's globals, aliases and functions, by identity
    ents0,                    \* ... as they were before the pass
    VMap,                     \* ValueToValueMapTy VMap, restricted to top-level entities
    LastUnique,               \* the module symbol table's counter for colliding names
    pc,                       \* the loop removeAddrspaces is in
    idx,                      \* ... and the position of that loop
    Globals,                  \* SmallVector<GlobalVariable *> Globals
    Aliases,                  \* SmallVector<GlobalAlias *> Aliases
    Functions,                \* SmallVector<Function *> Functions
    nmd,                      \* the operands of the module's named metadata
    matLog,                   \* address-space-cast calls of materialize and their results
    modified                  \* what removeAddrspaces returned

varsT == <<policy, MappedTypes, structs, NamedStructTypesUniqueID, stack,
           result, calls, rets, structs0>>

varsC == <<insts, order, NoopCasts, it, Changed, retval, cpc, insts0, order0>>

varsM == <<ents, ents0, VMap, LastUnique, pc, idx, Globals, Aliases, Functions,
           nmd, matLog, modified>>

vars == <<varsT, varsC, varsM>>

----------------------------------------------------------------------------
(* Bounds *)

MaxAS == 4
MaxCalls == 2
MaxInsts == 3

AddrSpaces == 0 .. MaxAS

----------------------------------------------------------------------------
(* Address-space policies *)

Generic == 0
FirstSpecial == 1
LastSpecial == 3

removeAllAddrspaces(AS) == Generic

removeJuliaAddrspacesStrict(AS) ==
    IF FirstSpecial < AS /\ AS < LastSpecial THEN Generic ELSE AS

removeJuliaAddrspaces(AS) ==
    IF FirstSpecial <= AS /\ AS <= LastSpecial THEN Generic ELSE AS

\* a caller-supplied policy: everything but the generic space goes to space 2
customAddrspaces(AS) == IF AS = Generic THEN Generic ELSE 2

Policies == {"all", "julia", "custom"}

ASRemapper(AS) ==
    CASE policy = "all" -> removeAllAddrspaces(AS)
      [] policy = "julia" -> removeJuliaAddrspaces(AS)
      [] OTHER -> customAddrspaces(AS)

----------------------------------------------------------------------------
(* Types.  Literal types are interned, so a tuple is their identity; an     *)
(* identified struct is its index in the table `structs`.                   *)

NoType == <<"none">>
I32 == <<"scalar", "i32">>
Ptr(as) == <<"ptr", as>>
Fn(ret, params, vararg) == <<"fn", ret, params, vararg>>
Lit(els, packed) == <<"lit", els, packed>>
Named(id) == <<"named", id>>
Arr(el, n) == <<"arr", el, n>>
Vec(el, n) == <<"vec", el, n>>

Kind(T) == T[1]

\* the element of a one-element set: { F(x) : x \in {e} } names e once
Only(S) == CHOOSE x \in S : TRUE

\* names: a base string and a list of suffixes; suffix 0 is ".bad", suffix
\* n+1 is "." followed by the number n
NoName == [base |-> "", sfx |-> <<>>]
Nm(b) == [base |-> b, sfx |-> <<>>]
BadKeep(name) == name

Bad(name) == [name EXCEPT !.sfx = Append(@, 0)]

StructRec(name, body, opaque, packed) ==
    [name |-> name, body |-> body, opaque |-> opaque, packed |-> packed]

RECURSIVE UniqueStructName(_, _, _)
UniqueStructName(S, name, uid) ==
    LET cand == [name EXCEPT !.sfx = Append(@, uid + 1)]
    IN  IF \E j \in DOMAIN S : S[j].name = cand
        THEN UniqueStructName(S, name, uid + 1)
        ELSE [name |-> cand, uid |-> uid + 1]

\* StructType::setName: a colliding name gets "." and the next free number
StructSetName(cfg, id, name) ==
    IF name = cfg.S[id].name THEN cfg
    ELSE IF \E j \in DOMAIN cfg.S : cfg.S[j].name = name
    THEN LET u == UniqueStructName(cfg.S, name, cfg.U)
         IN  [cfg EXCEPT !.S[id].name = u.name, !.U = u.uid]
    ELSE [cfg EXCEPT !.S[id].name = name]

----------------------------------------------------------------------------
(* remapType as a step machine over a configuration                        *)
(*   [M: MappedTypes, S: structs, U: unique id, K: stack, R: returned]     *)

Frame(T, kids, dst) == [src |-> T, kids |-> kids, done |-> <<>>, dst |-> dst]

Push(cfg, fr) == [cfg EXCEPT !.K = Append(@, fr)]

\* hand a returned type to the caller: the waiting activation, or the
\* outermost caller
Return(cfg, ty) ==
    IF cfg.K = <<>> THEN [cfg EXCEPT !.R = ty]
    ELSE [cfg EXCEPT !.K[Len(cfg.K)].done = Append(@, ty)]

Memoize(cfg, T, D) == [cfg EXCEPT !.M = (T :> D) @@ @]

RemapPointerKeep(T) == T

RemapPointer(T) == Ptr(ASRemapper(T[2]))

\* the sub-types a composite recurses into, in the order of the calls
Kids(cfg, T) ==
    CASE Kind(T) = "fn" -> Append(T[3], T[2])
      [] Kind(T) = "lit" -> T[2]
      [] Kind(T) = "named" -> cfg.S[T[2]].body
      [] Kind(T) \in {"arr", "vec"} -> <<T[2]>>
      [] OTHER -> <<>>

EnterNamedLate(cfg, T) ==
    LET id == T[2]
        new == Len(cfg.S) + 1
        c1 == [cfg EXCEPT !.S = Append(@, StructRec(NoName, <<>>, TRUE, FALSE))]
        c2 == IF c1.S[id].name # NoName
              THEN StructSetName(StructSetName(c1, id, Bad(c1.S[id].name)),
                                 new, c1.S[id].name)
              ELSE c1
    IN  Push(c2, Frame(T, Kids(cfg, T), Named(new)))

EnterNamedNoSwap(cfg, T) ==
    LET new == Len(cfg.S) + 1
        c1 == [cfg EXCEPT !.S = Append(@, StructRec(NoName, <<>>, TRUE, FALSE))]
    IN  Push(Memoize(c1, T, Named(new)), Frame(T, Kids(cfg, T), Named(new)))

\* a non-literal, non-opaque struct: create the destination, swap the names,
\* record the placeholder, then recurse into the elements
EnterNamed(cfg, T) ==
    LET id == T[2]
        new == Len(cfg.S) + 1
        c1 == [cfg EXCEPT !.S = Append(@, StructRec(NoName, <<>>, TRUE, FALSE))]
        c2 == IF c1.S[id].name # NoName
              THEN StructSetName(StructSetName(c1, id, Bad(c1.S[id].name)),
                                 new, c1.S[id].name)
              ELSE c1
    IN  Push(Memoize(c2, T, Named(new)), Frame(T, Kids(cfg, T), Named(new)))

\* entry of remapType(T): the memo lookup, then the dispatch on the kind
Enter(cfg, T) ==
    IF T \in DOMAIN cfg.M THEN Return(cfg, cfg.M[T])
    ELSE CASE Kind(T) = "ptr" ->
                Return(Memoize(cfg, T, RemapPointer(T)), RemapPointer(T))
           [] Kind(T) \in {"fn", "lit", "arr", "vec"} ->
                Push(cfg, Frame(T, Kids(cfg, T), NoType))
           [] Kind(T) = "named" /\ ~cfg.S[T[2]].opaque -> EnterNamed(cfg, T)
           [] OTHER -> Return(Memoize(cfg, T, T), T)

\* all elements are remapped: build DstTy, record it, return it
Finish(cfg) ==
    LET fr == cfg.K[Len(cfg.K)]
        T == fr.src
        n == Len(fr.done)
        DstTy ==
            CASE Kind(T) = "fn" -> Fn(fr.done[n], SubSeq(fr.done, 1, n - 1), T[4])
              [] Kind(T) = "lit" -> Lit(fr.done, T[3])
              [] Kind(T) = "arr" -> Arr(fr.done[1], T[3])
              [] Kind(T) = "vec" -> Vec(fr.done[1], T[3])
              [] OTHER -> fr.dst
        c1 == IF Kind(T) = "named"
              THEN [cfg EXCEPT !.S[fr.dst[2]] =
                        [@ EXCEPT !.body = fr.done, !.opaque = FALSE,
                                  !.packed = cfg.S[T[2]].packed]]
              ELSE cfg
        c2 == [c1 EXCEPT !.K = SubSeq(@, 1, Len(@) - 1)]
    IN  Return(Memoize(c2, T, DstTy), DstTy)

\* one step of the innermost activation
Step(cfg) ==
    LET fr == cfg.K[Len(cfg.K)]
    IN  IF Len(fr.done) < Len(fr.kids)
        THEN Enter(cfg, fr.kids[Len(fr.done) + 1])
        ELSE Finish(cfg)

RECURSIVE RemapRun(_)
RemapRun(cfg) ==
    IF cfg.K = <<>> THEN cfg ELSE Only({ RemapRun(c) : c \in {Step(cfg)} })

\* a whole call, for callers that do not observe its steps
remapType(cfg, T) == Only({ RemapRun(c) : c \in {Enter(cfg, T)} })

----------------------------------------------------------------------------
(* Function bodies and RemoveNoopAddrSpaceCasts                             *)
(* An instruction is [op, ops, as]: an address-space cast ("asc") or any    *)
(* other instruction ("use"), its operands, and the address space of its    *)
(* pointer result.  Operands are arguments <<"arg", k>>, instructions       *)
(* <<"inst", id>>,                                                          *)
(* or constants.  A configuration of the cleaner is                         *)
(*   [E: entities, I: instructions by identity, O: layout,                  *)
(*    A: argument address spaces, N: NoopCasts, it, Changed, ret, pc]       *)

Inst(op, ops, as) == [op |-> op, ops |-> ops, as |-> as]
ArgV(k) == <<"arg", k>>
InstV(id) == <<"inst", id>>

\* constants: a reference to a top-level entity, a null pointer, or a
\* constant expression [opcode, operand, address space of the result]
NoValue == <<"none">>
GlobC(e) == <<"glob", e>>
NullC(as) == <<"null", as>>
CE(opcode, c, as) == <<"ce", opcode, c, as>>

\* address space of a constant's pointer type
ConstAS(E, c) ==
    CASE c[1] = "glob" -> E[c[2]].as
      [] c[1] = "null" -> c[2]
      [] OTHER -> c[4]

\* address space of the pointer type of a value
ValAS(E, I, A, v) ==
    CASE v[1] = "arg" -> A[v[2]]
      [] v[1] = "inst" -> I[v[2]].as
      [] OTHER -> ConstAS(E, v)

getSrcAddressSpace(E, I, A, id) == ValAS(E, I, A, I[id].ops[1])
getDestAddressSpace(I, id) == I[id].as

replaceFirstOperandWith(I, old, new) ==
    [j \in DOMAIN I |->
        [I[j] EXCEPT !.ops = [k \in DOMAIN @ |-> IF k = 1 /\ @[k] = old THEN new ELSE @[k]]]]

\* Value::replaceAllUsesWith: every operand slot holding `old` now holds `new`
replaceAllUsesWith(I, old, new) ==
    [j \in DOMAIN I |->
        [I[j] EXCEPT !.ops = [k \in DOMAIN @ |-> IF @[k] = old THEN new ELSE @[k]]]]

CastCfg(E, I, O, A) ==
    [E |-> E, I |-> I, O |-> O, A |-> A, N |-> <<>>, it |-> 1, Changed |-> FALSE,
     ret |-> FALSE, pc |-> "scan"]

\* one iteration of the scan loop (or its exit), one iteration of the erase
\* loop, or the return
CastStep(c) ==
    CASE c.pc = "scan" /\ c.it > Len(c.O) -> [c EXCEPT !.pc = "erase"]
      [] c.pc = "scan" /\ c.it <= Len(c.O) ->
            LET id == c.O[c.it]
            IN  IF /\ c.I[id].op = "asc"
                   /\ getSrcAddressSpace(c.E, c.I, c.A, id) = getDestAddressSpace(c.I, id)
                THEN [c EXCEPT !.I = replaceAllUsesWith(@, InstV(id), c.I[id].ops[1]),
                               !.N = Append(@, id),
                               !.it = @ + 1]
                ELSE [c EXCEPT !.it = @ + 1]
      [] c.pc = "erase" /\ c.N # <<>> ->
            [c EXCEPT !.O = SelectSeq(@, LAMBDA x : x # c.N[1]), !.N = Tail(@)]
      [] c.pc = "erase" /\ c.N = <<>> -> [c EXCEPT !.ret = c.Changed, !.pc = "done"]
      [] OTHER -> c

RECURSIVE CastRun(_)
CastRun(c) ==
    IF c.pc = "done" THEN c ELSE Only({ CastRun(d) : d \in {CastStep(c)} })

\* a whole call, for callers that do not observe its steps
RemoveNoopAddrSpaceCasts(E, I, O, A) ==
    Only({ CastRun(c) : c \in {CastCfg(E, I, O, A)} })

----------------------------------------------------------------------------
(* Top-level entities, the module symbol table, MapValue and materialize    *)
(* An entity is [kind, name, as, vty, init, body, attr, inModule]: kind is  *)
(* "gv", "alias" or "fn" ("none" for an unused slot); as is its own address *)
(* space; vty its value type; init a global's initializer or an alias's     *)
(* aliasee; body a function's instructions and layout; attr the type of a   *)
(* byval/sret/byref attribute.  Linkage, constness, thread-local mode,      *)
(* comdat and attached metadata are copied over unchanged and are left out. *)

Entity(kind, name, as, vty, init, body, attr) ==
    [kind |-> kind, name |-> name, as |-> as, vty |-> vty, init |-> init,
     body |-> body, attr |-> attr, inModule |-> TRUE]

NoBody == [I |-> <<>>, O |-> <<>>]
Absent ==
    [kind |-> "none", name |-> NoName, as |-> 0, vty |-> NoType, init |-> NoValue,
     body |-> NoBody, attr |-> NoType, inModule |-> FALSE]

\* M.globals(), M.aliases(), M.functions(): the entities of a kind in the
\* module, in list order
OfKind(E, kind) ==
    SelectSeq([k \in DOMAIN E |-> k], LAMBDA e : E[e].inModule /\ E[e].kind = kind)

NameInUse(E, name, self) ==
    \E j \in DOMAIN E : j # self /\ E[j].inModule /\ E[j].name = name

\* ValueSymbolTable::makeUniqueName: "." and the next number of LastUnique
RECURSIVE UniqueValueName(_, _, _)
UniqueValueName(E, name, lu) ==
    LET cand == [name EXCEPT !.sfx = Append(@, lu + 2)]
    IN  IF NameInUse(E, cand, 0)
        THEN UniqueValueName(E, name, lu + 1)
        ELSE [name |-> cand, lu |-> lu + 1]

\* Value::setName on s = [E, LU]
ValueSetName(s, id, name) ==
    IF name = s.E[id].name THEN s
    ELSE IF NameInUse(s.E, name, id)
    THEN LET u == UniqueValueName(s.E, name, s.LU)
         IN  [s EXCEPT !.E[id].name = u.name, !.LU = u.lu]
    ELSE [s EXCEPT !.E[id].name = name]

\* the original gets Name + ".bad", the replacement is created unnamed-or-Name
\* at the end of the module's list
RenameAndCreate(E, lu, old, rec) ==
    LET Name == E[old].name
        s0 == [E |-> E, LU |-> lu]
        s1 == IF Name # NoName THEN ValueSetName(s0, old, Bad(Name)) ELSE s0
        s2 == [s1 EXCEPT !.E = Append(@, [rec EXCEPT !.name = NoName])]
    IN  IF Name # NoName THEN ValueSetName(s2, Len(s2.E), Name) ELSE s2

PeekThroughAlways(SrcAS, TyAS, Src) == Src

\* the operand replaces the cast when the address spaces match
PeekThrough(SrcAS, TyAS, Src) == IF SrcAS = TyAS THEN Src ELSE NoValue

\* MapValue and materialize thread st = [T: type remapper configuration,
\* log: casts seen by materialize]; both return [v, T, log]
RECURSIVE MapValue(_, _, _, _)
RECURSIVE materialize(_, _, _, _)

\* what materialize answers once the type Ty and the operand Src are remapped
Materialized(E, SrcV, Ty, Src) ==
    IF SrcV[2] = "asc"
    THEN Only({ [v |-> DstV, T |-> Src.T,
                 log |-> Src.log \cup
                         {[ce |-> SrcV, ty |-> Ty, src |-> Src.v, ret |-> DstV]}] :
                DstV \in {PeekThrough(ConstAS(E, Src.v), Ty[2], Src.v)} })
    ELSE [v |-> IF SrcV[2] # "gep" THEN CE(SrcV[2], Src.v, Ty[2]) ELSE NoValue,
          T |-> Src.T, log |-> Src.log]

materialize(E, VM, st, SrcV) ==
    IF SrcV[1] # "ce" THEN [v |-> NoValue, T |-> st.T, log |-> st.log]
    ELSE Only({ Only({ Materialized(E, SrcV, t1.R, Src) :
                       Src \in {MapValue(E, VM, [T |-> t1, log |-> st.log], SrcV[3])} }) :
                t1 \in {remapType(st.T, Ptr(SrcV[4]))} })

\* the structural remap of a constant for which materialize answered none (m)
GenericMap(E, VM, m, V) ==
    IF V[1] = "null"
    THEN Only({ [v |-> IF t.R = Ptr(V[2]) THEN V ELSE NullC(t.R[2]),
                 T |-> t, log |-> m.log] :
                t \in {remapType(m.T, Ptr(V[2]))} })
    ELSE Only({ Only({ [v |-> IF r.v = V[3] /\ t.R = Ptr(V[4]) THEN V
                              ELSE CE(V[2], r.v, t.R[2]),
                        T |-> t, log |-> r.log] :
                       t \in {remapType(r.T, Ptr(V[4]))} }) :
                r \in {MapValue(E, VM, [T |-> m.T, log |-> m.log], V[3])} })

\* llvm::MapValue with RF_None on a constant: the map, then the materializer,
\* then the structural remap (identity for an entity that is not in the map)
MapValue(E, VM, st, V) ==
    IF V[1] = "glob"
    THEN [v |-> IF V[2] \in DOMAIN VM THEN GlobC(VM[V[2]]) ELSE V,
          T |-> st.T, log |-> st.log]
    ELSE Only({ IF m.v # NoValue THEN m ELSE GenericMap(E, VM, m, V) :
                m \in {materialize(E, VM, st, V)} })

\* remap the operands of one instruction, left to right
RECURSIVE MapOperands(_, _, _, _, _)
MapOperands(E, VM, st, ops, k) ==
    IF k > Len(ops) THEN [ops |-> ops, T |-> st.T, log |-> st.log]
    ELSE IF ops[k][1] \in {"arg", "inst"}
    THEN MapOperands(E, VM, st, ops, k + 1)
    ELSE Only({ Only({ MapOperands(E, VM, [T |-> r.T, log |-> r.log], nops, k + 1) :
                       nops \in {[ops EXCEPT ![k] = r.v]} }) :
                r \in {MapValue(E, VM, st, ops[k])} })

\* CloneFunctionInto: every instruction copied with its operands and its
\* type remapped; arguments and instructions map to their copies
RECURSIVE CloneInsts(_, _, _, _, _)
CloneInsts(E, VM, st, I, k) ==
    IF k > Len(I) THEN [I |-> I, T |-> st.T, log |-> st.log]
    ELSE Only({ Only({ Only({ CloneInsts(E, VM, [T |-> t, log |-> r.log], nI, k + 1) :
                              nI \in {[I EXCEPT ![k] = Inst(I[k].op, r.ops, t.R[2])]} }) :
                       t \in {remapType(r.T, Ptr(I[k].as))} }) :
                r \in {MapOperands(E, VM, st, I[k].ops, 1)} })

\* remapType over a list of types, left to right; returns [tys, T]
RECURSIVE RemapTypes(_, _, _)
RemapTypes(tc, tys, k) ==
    IF k > Len(tys) THEN [tys |-> tys, T |-> tc]
    ELSE Only({ Only({ RemapTypes(t, ntys, k + 1) : ntys \in {[tys EXCEPT ![k] = t.R]} }) :
                t \in {remapType(tc, tys[k])} })

\* address spaces of a function's arguments (-1 for a non-pointer)
ArgSpaces(fty) ==
    [k \in DOMAIN fty[3] |-> IF Kind(fty[3][k]) = "ptr" THEN fty[3][k][2] ELSE -1]

PhaseAfterEager(p) ==
    CASE p = "start" -> "declG"
      [] p = "declG" -> "defG"
      [] p = "defG" -> "declA"
      [] p = "declA" -> "declF"
      [] p = "declF" -> "defF"
      [] p = "defF" -> "defA"
      [] p = "defA" -> "nmd"
      [] p = "nmd" -> "eraseG"
      [] p = "eraseG" -> "eraseA"
      [] p = "eraseA" -> "eraseF"
      [] p = "eraseF" -> "remangle"
      [] OTHER -> "done"

\* the order of the loops of removeAddrspaces
PhaseAfter(p) ==
    CASE p = "start" -> "declG"
      [] p = "declG" -> "declA"
      [] p = "declA" -> "declF"
      [] p = "declF" -> "defG"
      [] p = "defG" -> "defF"
      [] p = "defF" -> "defA"
      [] p = "defA" -> "nmd"
      [] p = "nmd" -> "eraseG"
      [] p = "eraseG" -> "eraseA"
      [] p = "eraseA" -> "eraseF"
      [] p = "eraseF" -> "remangle"
      [] OTHER -> "done"

----------------------------------------------------------------------------
(* Specification of the type remapper                                       *)

Cfg == [M |-> MappedTypes, S |-> structs, U |-> NamedStructTypesUniqueID,
        K |-> stack, R |-> result]

SetCfg(c) ==
    /\ MappedTypes' = c.M
    /\ structs' = c.S
    /\ NamedStructTypesUniqueID' = c.U
    /\ stack' = c.K
    /\ result' = c.R
    /\ rets' = IF c.K = <<>> THEN Append(rets, c.R) ELSE rets

SelfBodies ==
    { <<I32>>, <<Ptr(1), I32>>, <<Named(1), I32>>,
      <<Arr(Named(1), 2), Ptr(2)>>, <<Lit(<<Named(2)>>, FALSE)>> }

OtherStructs ==
    { StructRec(Nm("B"), <<>>, TRUE, FALSE),
      StructRec(Nm("B"), <<Named(1), Ptr(MaxAS)>>, FALSE, TRUE),
      StructRec(Bad(Nm("A")), <<I32, I32>>, FALSE, FALSE),
      StructRec(NoName, <<Vec(I32, 2)>>, FALSE, FALSE) }

StructTables ==
    { <<StructRec(Nm("A"), b, FALSE, FALSE), o>> : b \in SelfBodies, o \in OtherStructs }

RootTypes ==
    {Ptr(a) : a \in AddrSpaces} \cup
    { I32, Named(1), Named(2),
      Fn(I32, <<I32>>, TRUE), Fn(Ptr(1), <<Named(2), Ptr(MaxAS)>>, FALSE),
      Lit(<<I32, Arr(I32, 2)>>, TRUE), Lit(<<Ptr(3), Named(1)>>, FALSE),
      Arr(Named(1), 2), Vec(Ptr(2), 2) }

\* the parts of the state a specification does not use
IdleC ==
    /\ insts = <<>>
    /\ order = <<>>
    /\ NoopCasts = <<>>
    /\ it = 1
    /\ Changed = FALSE
    /\ retval = FALSE
    /\ cpc = "idle"
    /\ insts0 = <<>>
    /\ order0 = <<>>

IdleM ==
    /\ ents = <<>>
    /\ ents0 = <<>>
    /\ VMap = <<>>
    /\ LastUnique = 0
    /\ pc = "idle"
    /\ idx = 1
    /\ Globals = <<>>
    /\ Aliases = <<>>
    /\ Functions = <<>>
    /\ nmd = <<>>
    /\ matLog = {}
    /\ modified = FALSE

IdleT ==
    /\ policy = "all"
    /\ structs = <<>>
    /\ structs0 = <<>>
    /\ MappedTypes = <<>>
    /\ NamedStructTypesUniqueID = 0
    /\ stack = <<>>
    /\ result = NoType
    /\ calls = <<>>
    /\ rets = <<>>

InitT ==
    /\ IdleC
    /\ IdleM
    /\ policy \in Policies
    /\ structs \in StructTables
    /\ structs0 = structs
    /\ MappedTypes = <<>>
    /\ NamedStructTypesUniqueID = 0
    /\ stack = <<>>
    /\ result = NoType
    /\ calls = <<>>
    /\ rets = <<>>

TCall ==
    /\ stack = <<>>
    /\ Len(calls) < MaxCalls
    /\ \E T \in RootTypes :
        /\ calls' = Append(calls, T)
        /\ SetCfg(Enter(Cfg, T))
    /\ UNCHANGED <<policy, structs0, varsC, varsM>>

TStep ==
    /\ stack # <<>>
    /\ SetCfg(Step(Cfg))
    /\ UNCHANGED <<policy, calls, structs0, varsC, varsM>>

NextT == TCall \/ TStep

SpecT == InitT /\ [][NextT]_vars

----------------------------------------------------------------------------
(* Properties of the type remapper (checked under SpecT)                    *)

\* does T contain a pointer, looking through identified structs' bodies
RECURSIVE HasPtr(_, _, _)
HasPtr(S, T, seen) ==
    CASE Kind(T) = "ptr" -> TRUE
      [] Kind(T) = "fn" ->
            HasPtr(S, T[2], seen) \/ \E k \in DOMAIN T[3] : HasPtr(S, T[3][k], seen)
      [] Kind(T) = "lit" -> \E k \in DOMAIN T[2] : HasPtr(S, T[2][k], seen)
      [] Kind(T) \in {"arr", "vec"} -> HasPtr(S, T[2], seen)
      [] Kind(T) = "named" ->
            /\ T[2] \notin seen
            /\ \E k \in DOMAIN S[T[2]].body :
                    HasPtr(S, S[T[2]].body[k], seen \cup {T[2]})
      [] OTHER -> FALSE

\* does T mention the identified struct id, through literal aggregates only
RECURSIVE Mentions(_, _)
Mentions(T, id) ==
    CASE Kind(T) = "named" -> T[2] = id
      [] Kind(T) = "fn" ->
            Mentions(T[2], id) \/ \E k \in DOMAIN T[3] : Mentions(T[3][k], id)
      [] Kind(T) = "lit" -> \E k \in DOMAIN T[2] : Mentions(T[2][k], id)
      [] Kind(T) \in {"arr", "vec"} -> Mentions(T[2], id)
      [] OTHER -> FALSE

\* T with every identified non-opaque source struct replaced by its memo entry
RECURSIVE Subst(_)
Subst(T) ==
    CASE Kind(T) = "named" -> IF structs0[T[2]].opaque THEN T ELSE MappedTypes[T]
      [] Kind(T) = "fn" -> Fn(Subst(T[2]), [k \in DOMAIN T[3] |-> Subst(T[3][k])], T[4])
      [] Kind(T) = "lit" -> Lit([k \in DOMAIN T[2] |-> Subst(T[2][k])], T[3])
      [] Kind(T) = "arr" -> Arr(Subst(T[2]), T[3])
      [] Kind(T) = "vec" -> Vec(Subst(T[2]), T[3])
      [] OTHER -> T

IsPrefix(s, t) == Len(s) <= Len(t) /\ SubSeq(t, 1, Len(s)) = s

SelfRefStruct(s) ==
    /\ ~structs0[s].opaque
    /\ \E k \in DOMAIN structs0[s].body : Mentions(structs0[s].body[k], s)

\* C1: remapType of a pointer type with address space a returns the pointer
\* type with address space policy(a), on the first call and on every later
\* (memoized) call, and that is what the memo holds for it.
C1_PointerRemap ==
    /\ \A i \in 1 .. Len(rets) :
            Kind(calls[i]) = "ptr" => rets[i] = <<"ptr", ASRemapper(calls[i][2])>>
    /\ \A P \in DOMAIN MappedTypes :
            Kind(P) = "ptr" => MappedTypes[P] = <<"ptr", ASRemapper(P[2])>>

\* a pointer whose address space the policy changes was remapped twice
C1_Witness ==
    /\ Len(rets) = 2
    /\ calls[1] = calls[2]
    /\ Kind(calls[1]) = "ptr"
    /\ rets[2] # calls[2]

\* C4: remapType terminates on self-referential identified structs: while
\* the fields of a struct are being rewritten its placeholder is already in
\* the memo, no struct is ever entered while an activation for it is still
\* open (so every cycle of the type graph is cut at its struct), and
\* the returned struct refers to itself where the source referred to itself,
\* and nowhere to the source struct.
C4_SelfReference ==
    /\ \A k \in 1 .. Len(stack) :
            Kind(stack[k].src) = "named" =>
                /\ stack[k].src \in DOMAIN MappedTypes
                /\ MappedTypes[stack[k].src] = stack[k].dst
    /\ \A j, k \in 1 .. Len(stack) :
            (j < k /\ Kind(stack[j].src) = "named") => stack[j].src # stack[k].src
    /\ \A i \in 1 .. Len(rets) :
            (Kind(calls[i]) = "named" /\ SelfRefStruct(calls[i][2])) =>
                LET s == calls[i][2]
                    d == rets[i][2]
                IN  /\ Kind(rets[i]) = "named"
                    /\ d # s
                    /\ ~structs[d].opaque
                    /\ Len(structs[d].body) = Len(structs0[s].body)
                    /\ \A k \in DOMAIN structs[d].body :
                            /\ ~Mentions(structs[d].body[k], s)
                            /\ Mentions(structs0[s].body[k], s)
                                    <=> Mentions(structs[d].body[k], d)

\* a call on a struct that reaches itself through a nested array returned
C4_Witness ==
    /\ Len(rets) >= 1
    /\ calls[1] = Named(1)
    /\ structs0[1].body = <<Arr(Named(1), 2), Ptr(2)>>
    /\ stack = <<>>

\* C5 as stated: remapType of a pointer-free type returns the type itself,
\* and for an identified struct leaves the source struct as it was.
C5_Original ==
    \A i \in 1 .. Len(rets) :
        ~HasPtr(structs0, calls[i], {}) =>
            /\ rets[i] = calls[i]
            /\ Kind(calls[i]) = "named" => structs[calls[i][2]] = structs0[calls[i][2]]

\* C5 amended: remapType of a pointer-free type returns the type with every
\* identified non-opaque struct in it replaced by that struct's rewritten
\* copy (so the type itself when it holds none); for an identified
\* non-opaque struct the result is a newly created struct that takes over
\* the source's name and packing and whose fields are the source's fields
\* rewritten the same way, and the source keeps its fields but is renamed
\* with the ".bad" suffix (plus a number on a name collision).
C5_PointerFree ==
    \A i \in 1 .. Len(rets) :
        ~HasPtr(structs0, calls[i], {}) =>
            /\ rets[i] = Subst(calls[i])
            /\ (Kind(calls[i]) = "named" /\ ~structs0[calls[i][2]].opaque) =>
                LET s == calls[i][2]
                    d == rets[i][2]
                IN  /\ d > Len(structs0)
                    /\ structs[d].name = structs0[s].name
                    /\ structs[d].packed = structs0[s].packed
                    /\ ~structs[d].opaque
                    /\ structs[d].body =
                          [k \in DOMAIN structs0[s].body |-> Subst(structs0[s].body[k])]
                    /\ structs[s].body = structs0[s].body
                    /\ structs0[s].name # NoName =>
                          /\ structs[s].name.base = structs0[s].name.base
                          /\ IsPrefix(Append(structs0[s].name.sfx, 0), structs[s].name.sfx)
            /\ (Kind(calls[i]) \in {"scalar", "fn", "lit", "arr", "vec"}
                    /\ \A s \in DOMAIN structs0 : ~Mentions(calls[i], s)) =>
                rets[i] = calls[i]

\* a pointer-free identified struct and a pointer-free literal type were
\* both remapped
C5_Witness ==
    /\ Len(rets) = 2
    /\ calls[1] = Named(1)
    /\ structs0[1].body = <<I32>>
    /\ calls[2] = Lit(<<I32, Arr(I32, 2)>>, TRUE)

\* C8: under the collapse-reserved policy every pointer the remapper has
\* rewritten went to the generic space when its address space lies in
\* FirstSpecial..LastSpecial (bounds included) and kept its address space
\* otherwise; under the collapse-all policy it went to the generic space.
C8_Policies ==
    /\ \A a \in AddrSpaces :
            /\ removeJuliaAddrspaces(a) = IF a \in FirstSpecial .. LastSpecial THEN 0 ELSE a
            /\ removeAllAddrspaces(a) = 0
    /\ \A P \in DOMAIN MappedTypes :
            Kind(P) = "ptr" =>
                /\ policy = "julia" =>
                      MappedTypes[P][2] = IF P[2] \in FirstSpecial .. LastSpecial THEN 0 ELSE P[2]
                /\ policy = "all" => MappedTypes[P][2] = 0

\* the collapse-reserved policy was applied at the upper bound of the range
\* and just above it
C8_Witness ==
    /\ policy = "julia"
    /\ Ptr(LastSpecial) \in DOMAIN MappedTypes
    /\ Ptr(LastSpecial + 1) \in DOMAIN MappedTypes

----------------------------------------------------------------------------
(* Specification of RemoveNoopAddrSpaceCasts on one function                *)

\* address spaces of the function's pointer arguments
ArgAS == <<1, 2>>

Operands(n) == {ArgV(k) : k \in DOMAIN ArgAS} \cup {InstV(j) : j \in 1 .. n}

InstChoices(n) ==
    { Inst("asc", <<v>>, a) : v \in Operands(n), a \in {1, 2} } \cup
    { Inst("use", <<v>>, 1) : v \in Operands(n) } \cup
    { Inst("use", <<ArgV(1), v>>, 1) : v \in Operands(n) }

\* no instruction reaches itself through operands
RECURSIVE Reaches(_, _, _, _)
Reaches(I, v, id, fuel) ==
    /\ v[1] = "inst"
    /\ \/ v[2] = id
       \/ /\ fuel > 0
          /\ \E k \in DOMAIN I[v[2]].ops : Reaches(I, I[v[2]].ops[k], id, fuel - 1)

Acyclic(I) ==
    \A id \in DOMAIN I : \A k \in DOMAIN I[id].ops : ~Reaches(I, I[id].ops[k], id, Len(I))

\* the cast's source address space is its operand's
Bodies ==
    UNION { { I \in [1 .. n -> InstChoices(n)] : Acyclic(I) } : n \in 1 .. MaxInsts }

CCfg ==
    [E |-> <<>>, I |-> insts, O |-> order, A |-> ArgAS, N |-> NoopCasts, it |-> it,
     Changed |-> Changed, ret |-> retval, pc |-> cpc]

SetCCfg(c) ==
    /\ insts' = c.I
    /\ order' = c.O
    /\ NoopCasts' = c.N
    /\ it' = c.it
    /\ Changed' = c.Changed
    /\ retval' = c.ret
    /\ cpc' = c.pc

InitC ==
    /\ IdleT
    /\ IdleM
    /\ insts \in Bodies
    /\ order = [k \in DOMAIN insts |-> k]
    /\ insts0 = insts
    /\ order0 = order
    /\ NoopCasts = <<>>
    /\ it = 1
    /\ Changed = FALSE
    /\ retval = FALSE
    /\ cpc = "scan"

CScan ==
    /\ cpc = "scan"
    /\ SetCCfg(CastStep(CCfg))
    /\ UNCHANGED <<insts0, order0, varsT, varsM>>

CErase ==
    /\ cpc = "erase"
    /\ NoopCasts # <<>>
    /\ SetCCfg(CastStep(CCfg))
    /\ UNCHANGED <<insts0, order0, varsT, varsM>>

CReturn ==
    /\ cpc = "erase"
    /\ NoopCasts = <<>>
    /\ SetCCfg(CastStep(CCfg))
    /\ UNCHANGED <<insts0, order0, varsT, varsM>>

NextC == CScan \/ CErase \/ CReturn

SpecC == InitC /\ [][NextC]_vars

----------------------------------------------------------------------------
(* Properties of RemoveNoopAddrSpaceCasts (checked under SpecC)             *)

Range(seq) == {seq[k] : k \in DOMAIN seq}

WasNoopCast(id) ==
    /\ insts0[id].op = "asc"
    /\ ValAS(<<>>, insts0, ArgAS, insts0[id].ops[1]) = insts0[id].as

Removed == Range(order0) \ Range(order)

\* the value a use of v must refer to afterwards: v itself, or, for a
\* removed cast, what its operand resolves to
RECURSIVE Underlying(_)
Underlying(v) ==
    IF v[1] = "inst" /\ WasNoopCast(v[2]) THEN Underlying(insts0[v[2]].ops[1]) ELSE v

\* C6: when RemoveNoopAddrSpaceCasts has returned, exactly the casts whose
\* source and destination address space were equal are gone, no cast with
\* equal address spaces remains, every operand of every remaining
\* instruction is the underlying non-removed value of what it was before
\* (so none refers to a removed cast), and every cast between different
\* address spaces is still there, in place, with the same address spaces.
C6_NoopCastsRemoved ==
    cpc = "done" =>
        /\ Removed = {id \in Range(order0) : WasNoopCast(id)}
        /\ order = SelectSeq(order0, LAMBDA x : x \notin Removed)
        /\ \A id \in Range(order) :
                /\ insts[id].op = "asc" =>
                        getSrcAddressSpace(<<>>, insts, ArgAS, id) # getDestAddressSpace(insts, id)
                /\ insts[id].op = insts0[id].op
                /\ insts[id].as = insts0[id].as
                /\ Len(insts[id].ops) = Len(insts0[id].ops)
                /\ \A k \in DOMAIN insts[id].ops :
                        /\ insts[id].ops[k] = Underlying(insts0[id].ops[k])
                        /\ insts[id].ops[k][1] = "inst" => insts[id].ops[k][2] \notin Removed
                /\ insts0[id].op = "asc" =>
                        getSrcAddressSpace(<<>>, insts, ArgAS, id)
                            = ValAS(<<>>, insts0, ArgAS, insts0[id].ops[1])

\* the cleaner returned after removing a cast that another removed cast
\* used and that comes later in the layout than its user
C6_Witness ==
    /\ cpc = "done"
    /\ \E i, j \in Removed :
            /\ i < j
            /\ insts0[i].ops[1] = InstV(j)
    /\ \E u \in Range(order) :
            \E k \in DOMAIN insts0[u].ops :
                /\ insts0[u].ops[k][1] = "inst"
                /\ insts0[u].ops[k][2] \in Removed

\* C10: RemoveNoopAddrSpaceCasts returns true exactly when it removed at
\* least one address-space cast.
C10_ChangedReported ==
    cpc = "done" => (retval <=> Removed # {})

----------------------------------------------------------------------------
(* Specification of removeAddrspaces on one module                          *)
(* The module has up to four top-level entities in fixed slots: a global,   *)
(* a second global, an alias and a (non-intrinsic) function, which refer to *)
(* each other through initializers, the aliasee, the body and the named     *)
(* metadata.                                                                *)

ModuleStructs == <<StructRec(Nm("A"), <<Ptr(2), I32>>, FALSE, FALSE)>>

\* the type of a global that holds the constant c
HolderType(E, c) == IF c = NoValue THEN Named(1) ELSE Ptr(ConstAS(E, c))

\* own address space and initializer of the first global
Slot1Inits ==
    { <<0, NoValue>>, <<1, NoValue>>, <<1, NullC(2)>>, <<0, GlobC(2)>>, <<1, GlobC(3)>>,
      <<0, CE("asc", GlobC(4), 2)>>, <<1, CE("asc", GlobC(4), 2)>>,
      <<1, CE("gep", CE("asc", GlobC(2), 1), 1)>> }
Slot3Aliasees == { GlobC(1), GlobC(4), CE("asc", GlobC(1), 2) }

FnType == Fn(Ptr(3), <<Ptr(1), Ptr(2)>>, FALSE)

\* a declaration, and two bodies, with the type of the function's
\* byval/sret/byref attribute
FnBodies ==
    << NoBody,
       [I |-> << Inst("asc", <<ArgV(1)>>, 2),
                 Inst("use", <<InstV(1), GlobC(1)>>, 2),
                 Inst("asc", <<ArgV(2)>>, MaxAS) >>,
        O |-> <<1, 2, 3>>],
       [I |-> << Inst("use", <<InstV(2), CE("asc", GlobC(1), 3)>>, 1),
                 Inst("asc", <<GlobC(4)>>, 3) >>,
        O |-> <<1, 2>>] >>
FnAttrs == << NoType, Named(1), NoType >>

Slot1 == { Entity("gv", Nm("x"), ac[1], NoType, ac[2], NoBody, NoType) : ac \in Slot1Inits }
Slot2 ==
    { Entity("gv", nc[1], MaxAS, NoType, nc[2], NoBody, NoType) :
        nc \in { <<[base |-> "x", sfx |-> <<0>>], NoValue>>, <<[base |-> "x", sfx |-> <<0>>], CE("other", GlobC(1), 1)>>,
                 <<Nm("y"), CE("other", GlobC(1), 1)>>, <<NoName, NoValue>> } }
    \cup {Absent}
Slot3 == { Entity("alias", Nm("a"), 0, I32, c, NoBody, NoType) : c \in Slot3Aliasees }
            \cup {Absent}
Slot4 ==
    { Entity("fn", na[1], na[2], FnType, NoValue, FnBodies[b], FnAttrs[b]) :
        na \in { <<Nm("f"), 0>>, <<Nm("f"), 1>>, <<[base |-> "a", sfx |-> <<0>>], 1>> },
        b \in DOMAIN FnBodies }
    \cup {Absent}

RECURSIVE ConstRefs(_)
ConstRefs(c) ==
    CASE c[1] = "glob" -> {c[2]}
      [] c[1] = "ce" -> ConstRefs(c[3])
      [] OTHER -> {}

\* the top-level entities an entity's initializer, aliasee or body refers to
EntRefs(ent) ==
    ConstRefs(ent.init) \cup
    UNION { UNION { ConstRefs(ent.body.I[i].ops[k]) : k \in DOMAIN ent.body.I[i].ops } :
                i \in DOMAIN ent.body.I }

RECURSIVE ValidConst(_, _)
ValidConst(E, c) ==
    CASE c[1] = "glob" -> E[c[2]].inModule
      [] c[1] = "ce" ->
            /\ ValidConst(E, c[3])
            /\ c[2] = "asc" => ConstAS(E, c[3]) # c[4]
            /\ c[2] # "asc" => ConstAS(E, c[3]) = c[4]
      [] OTHER -> TRUE

\* references go to entities of the module, and casts change address space
WellFormed(E, md) ==
    /\ \A e \in DOMAIN E :
            /\ ValidConst(E, E[e].init)
            /\ \A i \in DOMAIN E[e].body.I : \A k \in DOMAIN E[e].body.I[i].ops :
                    E[e].body.I[i].ops[k][1] \in {"glob", "null", "ce"} =>
                        ValidConst(E, E[e].body.I[i].ops[k])
    /\ \A k \in DOMAIN md : E[md[k]].inModule

\* a global's value type is the type of its initializer; an alias has the
\* address space of its aliasee
Typed(E) ==
    [e \in DOMAIN E |->
        CASE E[e].kind = "gv" -> [E[e] EXCEPT !.vty = HolderType(E, E[e].init)]
          [] E[e].kind = "alias" /\ ValidConst(E, E[e].init) ->
                [E[e] EXCEPT !.as = ConstAS(E, E[e].init)]
          [] OTHER -> E[e]]

Modules ==
    { Typed(<<e1, e2, e3, e4>>) : e1 \in Slot1, e2 \in Slot2, e3 \in Slot3, e4 \in Slot4 }

TCfg == [M |-> MappedTypes, S |-> structs, U |-> NamedStructTypesUniqueID,
         K |-> <<>>, R |-> NoType]

SetTypes(t) ==
    /\ MappedTypes' = t.M
    /\ structs' = t.S
    /\ NamedStructTypesUniqueID' = t.U
    /\ UNCHANGED <<policy, stack, result, calls, rets, structs0, varsC>>

Init ==
    /\ IdleC
    /\ policy \in Policies
    /\ structs = ModuleStructs
    /\ structs0 = structs
    /\ MappedTypes = <<>>
    /\ NamedStructTypesUniqueID = 0
    /\ stack = <<>>
    /\ result = NoType
    /\ calls = <<>>
    /\ rets = <<>>
    /\ ents \in Modules
    /\ nmd \in {<<>>, <<1>>, <<4, 1>>}
    /\ WellFormed(ents, nmd)
    /\ ents0 = ents
    /\ VMap = <<>>
    /\ LastUnique = 0
    /\ pc = "start"
    /\ idx = 1
    /\ Globals = <<>>
    /\ Aliases = <<>>
    /\ Functions = <<>>
    /\ matLog = {}
    /\ modified = FALSE

\* the list the current loop runs over
PhaseList ==
    CASE pc \in {"declG", "defG", "eraseG"} -> Globals
      [] pc \in {"declA", "defA", "eraseA"} -> Aliases
      [] pc \in {"declF", "defF", "eraseF"} -> Functions
      [] pc = "nmd" -> nmd
      [] pc = "remangle" -> OfKind(ents, "fn")
      [] OTHER -> <<>>

InLoop(p) == pc = p /\ idx <= Len(PhaseList)

\* entry of removeAddrspaces: the maps are empty, the globals are collected
Start ==
    /\ pc = "start"
    /\ Globals' = OfKind(ents, "gv")
    /\ pc' = PhaseAfter(pc)
    /\ idx' = 1
    /\ UNCHANGED <<ents, ents0, VMap, LastUnique, Aliases, Functions, nmd, matLog,
                   modified, varsT, varsC>>

\* a loop is over: the next one starts, after collecting what it runs over;
\* after the last one the pass returns true
LoopExit ==
    /\ pc \notin {"start", "done"}
    /\ idx > Len(PhaseList)
    /\ pc' = PhaseAfter(pc)
    /\ idx' = 1
    /\ Aliases' = IF pc' = "declA" THEN OfKind(ents, "alias") ELSE Aliases
    /\ Functions' = IF pc' = "declF" THEN OfKind(ents, "fn") ELSE Functions
    /\ modified' = (pc' = "done")
    /\ UNCHANGED <<ents, ents0, VMap, LastUnique, Globals, nmd, matLog, varsT, varsC>>

DeclareGlobal ==
    /\ InLoop("declG")
    /\ \E GV \in {Globals[idx]} :
       \E t1 \in {remapType(TCfg, ents[GV].vty)} :
       \E t2 \in {remapType(t1, Ptr(ents[GV].as))} :
       \E NGV \in {Entity("gv", NoName, t2.R[2], t1.R, NoValue, NoBody, NoType)} :
       \E s \in {RenameAndCreate(ents, LastUnique, GV, NGV)} :
           /\ ents' = s.E
           /\ LastUnique' = s.LU
           /\ VMap' = (GV :> Len(s.E)) @@ VMap
           /\ SetTypes(t2)
    /\ idx' = idx + 1
    /\ UNCHANGED <<ents0, pc, Globals, Aliases, Functions, nmd, matLog, modified>>

DeclareAlias ==
    /\ InLoop("declA")
    /\ \E GA \in {Aliases[idx]} :
       \E t1 \in {remapType(TCfg, ents[GA].vty)} :
       \E t2 \in {remapType(t1, Ptr(ents[GA].as))} :
       \E NGA \in {Entity("alias", NoName, t2.R[2], t1.R, NoValue, NoBody, NoType)} :
       \E s \in {RenameAndCreate(ents, LastUnique, GA, NGA)} :
           /\ ents' = s.E
           /\ LastUnique' = s.LU
           /\ VMap' = (GA :> Len(s.E)) @@ VMap
           /\ SetTypes(t2)
    /\ idx' = idx + 1
    /\ UNCHANGED <<ents0, pc, Globals, Aliases, Functions, nmd, matLog, modified>>

DeclareFunction ==
    /\ InLoop("declF")
    /\ \E F \in {Functions[idx]} :
       \E FTy \in {ents[F].vty} :
       \E r \in {RemapTypes(TCfg, FTy[3], 1)} :
       \E t \in {remapType(r.T, FTy[2])} :
       \E NFTy \in {Fn(t.R, r.tys, FTy[4])} :
       \E NF \in {Entity("fn", NoName, ents[F].as, NFTy, NoValue, NoBody, NoType)} :
       \E s \in {RenameAndCreate(ents, LastUnique, F, NF)} :
           /\ ents' = s.E
           /\ LastUnique' = s.LU
           /\ VMap' = (F :> Len(s.E)) @@ VMap
           /\ SetTypes(t)
    /\ idx' = idx + 1
    /\ UNCHANGED <<ents0, pc, Globals, Aliases, Functions, nmd, matLog, modified>>

DefineGlobal ==
    /\ InLoop("defG")
    /\ \E GV \in {Globals[idx]} :
           IF ents[GV].init = NoValue
           THEN UNCHANGED <<ents, matLog, varsT, varsC>>
           ELSE \E r \in {MapValue(ents, VMap, [T |-> TCfg, log |-> matLog],
                                    ents[GV].init)} :
                /\ ents' = [ents EXCEPT ![VMap[GV]].init = r.v, ![GV].init = NoValue]
                /\ matLog' = r.log
                /\ SetTypes(r.T)
    /\ idx' = idx + 1
    /\ UNCHANGED <<ents0, VMap, LastUnique, pc, Globals, Aliases, Functions, nmd, modified>>

DefineFunction ==
    /\ InLoop("defF")
    /\ \E F \in {Functions[idx]} :
       \E NF \in {VMap[F]} :
       \E c \in {CloneInsts(ents, VMap, [T |-> TCfg, log |-> matLog], ents[F].body.I, 1)} :
       \E t \in {IF ents[F].attr # NoType THEN remapType(c.T, ents[F].attr) ELSE c.T} :
       \E cl \in {RemoveNoopAddrSpaceCasts(ents, c.I, ents[F].body.O,
                                           ArgSpaces(ents[NF].vty))} :
           /\ ents' = [ents EXCEPT
                          ![NF].body = [I |-> cl.I, O |-> cl.O],
                          ![NF].attr = IF ents[F].attr # NoType THEN t.R ELSE NoType,
                          ![F].body = NoBody]
           /\ matLog' = c.log
           /\ SetTypes(t)
    /\ idx' = idx + 1
    /\ UNCHANGED <<ents0, VMap, LastUnique, pc, Globals, Aliases, Functions, nmd, modified>>

DefineAlias ==
    /\ InLoop("defA")
    /\ \E GA \in {Aliases[idx]} :
           IF ents[GA].init = NoValue
           THEN UNCHANGED <<ents, matLog, varsT, varsC>>
           ELSE \E r \in {MapValue(ents, VMap, [T |-> TCfg, log |-> matLog],
                                    ents[GA].init)} :
                /\ ents' = [ents EXCEPT ![VMap[GA]].init = r.v, ![GA].init = NoValue]
                /\ matLog' = r.log
                /\ SetTypes(r.T)
    /\ idx' = idx + 1
    /\ UNCHANGED <<ents0, VMap, LastUnique, pc, Globals, Aliases, Functions, nmd, modified>>

\* MapMetadata(operand, VMap)
RemapNamedMetadata ==
    /\ InLoop("nmd")
    /\ nmd' = [nmd EXCEPT ![idx] = IF @ \in DOMAIN VMap THEN VMap[@] ELSE @]
    /\ idx' = idx + 1
    /\ UNCHANGED <<ents, ents0, VMap, LastUnique, pc, Globals, Aliases, Functions,
                   matLog, modified, varsT, varsC>>

EraseGlobal ==
    /\ InLoop("eraseG")
    /\ ents' = [ents EXCEPT ![Globals[idx]].inModule = FALSE]
    /\ idx' = idx + 1
    /\ UNCHANGED <<ents0, VMap, LastUnique, pc, Globals, Aliases, Functions, nmd,
                   matLog, modified, varsT, varsC>>

EraseAlias ==
    /\ InLoop("eraseA")
    /\ ents' = [ents EXCEPT ![Aliases[idx]].inModule = FALSE]
    /\ idx' = idx + 1
    /\ UNCHANGED <<ents0, VMap, LastUnique, pc, Globals, Aliases, Functions, nmd,
                   matLog, modified, varsT, varsC>>

EraseFunction ==
    /\ InLoop("eraseF")
    /\ ents' = [ents EXCEPT ![Functions[idx]].inModule = FALSE]
    /\ idx' = idx + 1
    /\ UNCHANGED <<ents0, VMap, LastUnique, pc, Globals, Aliases, Functions, nmd,
                   matLog, modified, varsT, varsC>>

\* Intrinsic::remangleIntrinsicFunction answers "none" for every function
\* that is not an intrinsic, and the module holds none
Remangle ==
    /\ InLoop("remangle")
    /\ idx' = idx + 1
    /\ UNCHANGED <<ents, ents0, VMap, LastUnique, pc, Globals, Aliases, Functions,
                   nmd, matLog, modified, varsT, varsC>>

Next ==
    \/ Start
    \/ LoopExit
    \/ DeclareGlobal
    \/ DeclareAlias
    \/ DeclareFunction
    \/ DefineGlobal
    \/ DefineFunction
    \/ DefineAlias
    \/ RemapNamedMetadata
    \/ EraseGlobal
    \/ EraseAlias
    \/ EraseFunction
    \/ Remangle

Spec == Init /\ [][Next]_vars

----------------------------------------------------------------------------
(* Properties of removeAddrspaces (checked under Spec)                      *)

Originals == {o \in DOMAIN ents0 : ents0[o].kind # "none"}
IsReplacement(e) == e > Len(ents0)
InModule == {e \in DOMAIN ents : ents[e].inModule}

InImage(a) == \E b \in AddrSpaces : ASRemapper(b) = a

\* the address spaces of the pointers in T, looking through struct bodies
RECURSIVE TypeSpaces(_, _, _)
TypeSpaces(S, T, seen) ==
    CASE Kind(T) = "ptr" -> {T[2]}
      [] Kind(T) = "fn" ->
            TypeSpaces(S, T[2], seen) \cup
            UNION { TypeSpaces(S, T[3][k], seen) : k \in DOMAIN T[3] }
      [] Kind(T) = "lit" -> UNION { TypeSpaces(S, T[2][k], seen) : k \in DOMAIN T[2] }
      [] Kind(T) \in {"arr", "vec"} -> TypeSpaces(S, T[2], seen)
      [] Kind(T) = "named" ->
            IF T[2] \in seen THEN {}
            ELSE UNION { TypeSpaces(S, S[T[2]].body[k], seen \cup {T[2]}) :
                            k \in DOMAIN S[T[2]].body }
      [] OTHER -> {}

\* C2: when removeAddrspaces has returned, every global, alias and function
\* of the module has its own address space in the image of the policy, the
\* pointers in its value type have theirs there too, and the replacement of
\* an entity whose own address space was a has own address space policy(a).
C2_DeclaredSpacesInImage ==
    pc = "done" =>
        /\ \A e \in InModule :
                /\ InImage(ents[e].as)
                /\ \A a \in TypeSpaces(structs, ents[e].vty, {}) : InImage(a)
        /\ \A o \in Originals : ents[VMap[o]].as = ASRemapper(ents0[o].as)

\* C3: at every step the named entities of the module have pairwise
\* different names and every replacement carries the name its original
\* had before the pass; when the pass has returned, each original is out
\* of the module and the only entity of its kind under its original name
\* is its replacement.
C3_NamesKept ==
    /\ \A i, j \in InModule :
            (i # j /\ ents[i].name # NoName) => ents[i].name # ents[j].name
    /\ \A o \in DOMAIN VMap : ents[VMap[o]].name = ents0[o].name
    /\ pc = "done" =>
            \A o \in Originals :
                /\ ~ents[o].inModule
                /\ ents0[o].name # NoName =>
                      {e \in InModule : ents[e].kind = ents0[o].kind
                                          /\ ents[e].name = ents0[o].name} = {VMap[o]}

\* the pass returned on a module that held "x" and "x.bad", and "a" and
\* "a.bad", so both renames collided
C3_Witness ==
    /\ pc = "done"
    /\ ents0[2].kind = "gv" /\ ents0[2].name = Bad(ents0[1].name)
    /\ ents0[3].kind = "alias" /\ ents0[4].kind = "fn"
    /\ ents0[4].name = Bad(ents0[3].name)
    /\ LastUnique >= 2

\* C7: every call of materialize on an address-space-cast expression
\* remapped the operand (an entity to its replacement, a null pointer to the
\* null pointer of the remapped space), compared the operand's address space
\* with that of the cast's remapped type, and returned that operand when
\* they are equal and none when they differ.
C7_CastMaterialized ==
    \A l \in matLog :
        /\ l.ty = <<"ptr", ASRemapper(l.ce[4])>>
        /\ l.src # NoValue
        /\ (l.ce[3][1] = "glob" /\ l.ce[3][2] \in DOMAIN VMap) =>
                l.src = <<"glob", VMap[l.ce[3][2]]>>
        /\ l.ce[3][1] = "null" => l.src = <<"null", ASRemapper(l.ce[3][2])>>
        /\ ConstAS(ents, l.src) = ASRemapper(l.ce[4]) => l.ret = l.src
        /\ ConstAS(ents, l.src) # ASRemapper(l.ce[4]) => l.ret = NoValue

\* materialize has folded one cast into its operand and declined another
C7_Witness ==
    /\ \E l \in matLog : l.ret = l.src /\ l.ret[1] = "glob"
    /\ \E l \in matLog : l.ret = NoValue

\* C9: while initializers, bodies, aliasees and named metadata are remapped
\* the entity map takes every original to a replacement of its kind that is
\* in the module; whatever a replacement or a remapped metadata operand
\* refers to is the replacement of what the original referred to, never an
\* original; and no original has left the module before the erase loops.
C9_DeclaredBeforeDefined ==
    /\ pc \in {"defG", "defF", "defA", "nmd"} =>
            \A o \in Originals :
                /\ o \in DOMAIN VMap
                /\ IsReplacement(VMap[o])
                /\ ents[VMap[o]].inModule
                /\ ents[VMap[o]].kind = ents0[o].kind
    /\ \A o \in DOMAIN VMap :
            /\ EntRefs(ents[VMap[o]]) \subseteq {VMap[r] : r \in EntRefs(ents0[o]) \cap DOMAIN VMap}
            /\ \A r \in EntRefs(ents[VMap[o]]) : IsReplacement(r)
            /\ (ents0[o].init # NoValue /\ ents[o].init = NoValue) =>
                    ConstRefs(ents[VMap[o]].init) = {VMap[r] : r \in ConstRefs(ents0[o].init)}
    /\ \A k \in DOMAIN nmd :
            ((pc = "nmd" /\ k < idx) \/ pc \in {"eraseG", "eraseA", "eraseF", "remangle", "done"})
                => IsReplacement(nmd[k]) /\ ents[nmd[k]].kind \in {"gv", "fn"}
    /\ \A o \in Originals :
            ~ents[o].inModule => pc \in {"eraseG", "eraseA", "eraseF", "remangle", "done"}

\* the pass returned on a module whose first global's initializer refers
\* forward to the function, whose function body refers back to the global,
\* with an alias and named metadata present
C9_Witness ==
    /\ pc = "done"
    /\ 4 \in ConstRefs(ents0[1].init)
    /\ 1 \in EntRefs(ents0[4])
    /\ ents0[3].kind = "alias"
    /\ nmd # <<>>
    /\ ConstRefs(ents[VMap[1]].init) = {VMap[4]}

====
